---------------------------- MODULE Spec2Model ----------------------------
(***************************************************************************)
(* Overnight / intraday drift pipeline (getBars.py, helperMethods.py,      *)
(* main.py) as a state machine.                                            *)
(*                                                                         *)
(* Time is counted in 30-minute slots of UTC (the bar granularity of       *)
(* get30MinuteBarAttributes): instant ts is slot ts % 48 of UTC day        *)
(* ts \div 48.  Model days are sampled calendar dates in date order; even  *)
(* days lie in the daylight-time part of the year (America/New_York =      *)
(* UTC-4), odd days in the standard-time part (UTC-5).  A bar carries the  *)
(* columns the drift code reads: open, close, timestamp (high, low and     *)
(* volume are carried by the code but never read by it).  Prices follow a  *)
(* fixed path (OpenAt, CloseAt); which bars exist is the free input.       *)
(* Floating point values are modelled as exact rationals [num, den].       *)
(***************************************************************************)
EXTENDS Integers, Sequences, FiniteSets, TLC

(* ------------------------------ bounds -------------------------------- *)
NumDays == 3
DaysPerYear == 2
NumYears == 2
MaxPages == 3
MaxBars == 3
MaxPrice == 7

(* ------------------------------ helpers ------------------------------- *)
SlotsPerDay == 24 * 2

Abs(x) == IF x < 0 THEN -x ELSE x

RECURSIVE Gcd(_, _)
Gcd(a, b) == IF b = 0 THEN a ELSE Gcd(b, a % b)

\* a float, as an exact fraction in lowest terms with a positive denominator
Rat(n, d) ==
    LET s == IF d < 0 THEN -1 ELSE 1
        g == Gcd(Abs(n), Abs(d))
    IN  [num |-> (s * n) \div g, den |-> (s * d) \div g]

RMul(a, b) ==
    LET x == Rat(a.num, b.den)
        y == Rat(b.num, a.den)
    IN  Rat(x.num * y.num, x.den * y.den)

RAdd(a, b) == Rat(a.num * b.den + b.num * a.den, a.den * b.den)

RInt(n) == Rat(n, 1)

RECURSIVE SetToSortedSeq(_)
SetToSortedSeq(S) ==
    IF S = {} THEN << >>
    ELSE LET m == CHOOSE x \in S : \A y \in S : x <= y
         IN  <<m>> \o SetToSortedSeq(S \ {m})

RECURSIVE SelectRows(_, _)
SelectRows(rows, keep) ==
    IF rows = << >> THEN << >>
    ELSE (IF keep[1] THEN <<Head(rows)>> ELSE << >>)
         \o SelectRows(Tail(rows), Tail(keep))

RECURSIVE SubsetsUpTo(_, _)
SubsetsUpTo(S, k) ==
    IF k = 0 THEN {{}}
    ELSE LET P == SubsetsUpTo(S, k - 1)
         IN  P \cup {T \cup {x} : T \in P, x \in S}

(* --------------------------- time and prices -------------------------- *)
DayOf(ts) == ts \div SlotsPerDay
SlotOf(ts) == ts % SlotsPerDay
At(day, slot) == day * SlotsPerDay + slot
\* Timestamp.year of the UTC date
YearOf(ts) == DayOf(ts) \div DaysPerYear
Days == 0..(NumDays - 1)

\* zoneinfo of America/New_York for the sampled dates
IsDaylight(ts) == DayOf(ts) % 2 = 0
EasternOffsetFixed(ts) == 10
EasternOffsetSlots(ts) == IF IsDaylight(ts) THEN 8 ELSE 10

\* a timezone-aware pandas Timestamp: the instant and the zone it displays in
UtcStamp(ts) == [utc |-> ts, tz |-> "UTC"]
\* Series.dt.tz_convert('America/New_York')
TzConvertNY(t) == [utc |-> t.utc, tz |-> "NY"]
\* pd.to_datetime(..., utc=True) of an aware Timestamp: same instant, shown in UTC
ToDatetimeUtc(t) == [utc |-> t.utc, tz |-> "UTC"]

LocalSlots(t) == IF t.tz = "NY" THEN t.utc - EasternOffsetSlots(t.utc) ELSE t.utc
HourOf(t) == SlotOf(LocalSlots(t)) \div 2
MinuteOf(t) == 30 * (SlotOf(LocalSlots(t)) % 2)

\* the price path served by the data source
OpenAt(ts) == 1 + ((5 * ts + 3) % MaxPrice)
CloseAt(ts) == 1 + ((3 * ts + DayOf(ts)) % MaxPrice)

\* one bar of the API response after the column rename
BarAt(ts) == [open |-> OpenAt(ts), close |-> CloseAt(ts), timestamp |-> UtcStamp(ts)]

BarSeries(instants) ==
    LET order == SetToSortedSeq(instants)
    IN  [k \in 1..Len(order) |-> BarAt(order[k])]

(* ------------------------- session classifier ------------------------- *)
IntradayMask(t) ==
    LET e == TzConvertNY(t)
    IN  (HourOf(e) = 9 /\ MinuteOf(e) >= 30) \/ (HourOf(e) > 9 /\ HourOf(e) < 16)

OvernightMaskAfterFour(t) ==
    LET e == TzConvertNY(t)
    IN  HourOf(e) > 16 \/ HourOf(e) < 9 \/ (HourOf(e) = 9 /\ MinuteOf(e) < 30)

OvernightMask(t) ==
    LET e == TzConvertNY(t)
    IN  HourOf(e) >= 16 \/ HourOf(e) < 9 \/ (HourOf(e) = 9 /\ MinuteOf(e) < 30)

Reparse(df) ==
    [k \in 1..Len(df) |-> [df[k] EXCEPT !.timestamp = ToDatetimeUtc(@)]]

getIntradayBarAttributes(df) ==
    LET d == Reparse(df)
    IN  SelectRows(d, [k \in 1..Len(d) |-> IntradayMask(d[k].timestamp)])

getOvernightBarAttributes(df) ==
    LET d == Reparse(df)
    IN  SelectRows(d, [k \in 1..Len(d) |-> OvernightMask(d[k].timestamp)])

(* ------------------------------- state -------------------------------- *)
VARIABLES
    \* get30MinDriftPerBar / load_continuous_dataframes
    bpc, bdf, intraday_df, overnight_df, bi,
    \* getDriftDataFrames / simpleTestOfPrinciple; source_bars is what the data
    \* source returned to the call, the instants of its bars
    dpc, dfn, source_bars, ddf, calendar, dates, di, overnight_drifts,
    intraday_drifts, dwarn, dret,
    \* main.py: the multi-year runner and plot_cumulative_daily_drift
    rpc, ri, market, all_intraday_dfs, all_overnight_dfs, rlog,
    full_intraday, full_overnight, cum_intraday, cum_overnight, ci,
    \* get5MinuteBarAttributes / get15MinuteBarAttributes / get30MinuteBarAttributes
    fpc, timeframe, pages, page_token, all_bars, requests, fret

barVars == <<bpc, bdf, intraday_df, overnight_df, bi>>
driftVars == <<dpc, dfn, source_bars, ddf, calendar, dates, di, overnight_drifts,
               intraday_drifts, dwarn, dret>>
runVars == <<rpc, ri, market, all_intraday_dfs, all_overnight_dfs, rlog,
             full_intraday, full_overnight, cum_intraday, cum_overnight, ci>>
fetchVars == <<fpc, timeframe, pages, page_token, all_bars, requests, fret>>
vars == <<barVars, driftVars, runVars, fetchVars>>
nonBarVars == <<driftVars, runVars, fetchVars>>
nonDriftVars == <<barVars, runVars, fetchVars>>
nonRunVars == <<barVars, driftVars, fetchVars>>
nonFetchVars == <<barVars, driftVars, runVars>>

BarIdle ==
    /\ bpc = "idle"
    /\ bdf = << >>
    /\ intraday_df = << >>
    /\ overnight_df = << >>
    /\ bi = 0

DriftIdle ==
    /\ dpc = "idle"
    /\ dfn = "none"
    /\ source_bars = {}
    /\ ddf = << >>
    /\ calendar = {}
    /\ dates = << >>
    /\ di = 0
    /\ overnight_drifts = << >>
    /\ intraday_drifts = << >>
    /\ dwarn = << >>
    /\ dret = [kind |-> "none"]

RunIdle ==
    /\ rpc = "idle"
    /\ ri = 0
    /\ market = << >>
    /\ all_intraday_dfs = << >>
    /\ all_overnight_dfs = << >>
    /\ rlog = << >>
    /\ full_intraday = << >>
    /\ full_overnight = << >>
    /\ cum_intraday = << >>
    /\ cum_overnight = << >>
    /\ ci = 0

FetchIdle ==
    /\ fpc = "idle"
    /\ timeframe = "none"
    /\ pages = << >>
    /\ page_token = 0
    /\ all_bars = << >>
    /\ requests = 0
    /\ fret = [kind |-> "none"]

(* ------------------- get30MinDriftPerBar (per-bar drift) -------------- *)
\* UTC slots at which the data source may hold a bar in this program:
\* 00:00, 04:00, 05:00, 08:00, 13:00, 13:30, 14:30 and 20:00 UTC
BarSlots == {0, 8, 10, 16, 26, 27, 29, 40}
BarInstants == {At(d, s) : d \in 0..(NumDays - 1), s \in BarSlots}

\* pd.to_datetime("08:00:00").time()
PivotHour == 8
PivotMinute == 0

IsPivotTimeEastern(t) ==
    HourOf(TzConvertNY(t)) = PivotHour /\ MinuteOf(TzConvertNY(t)) = PivotMinute

\* curr_row['timestamp'].time() == pd.to_datetime("08:00:00").time()
IsPivotTime(t) == HourOf(t) = PivotHour /\ MinuteOf(t) = PivotMinute

\* body of the loop over overnight_df, for row i (1-based)
OvernightDelta(odf, i) ==
    LET curr_row == odf[i]
        prev_close == IF i > 1 THEN odf[i - 1].close ELSE curr_row.open
    IN  IF IsPivotTime(curr_row.timestamp)
        THEN curr_row.close - prev_close
        ELSE curr_row.close - curr_row.open

InitBar ==
    /\ bpc = "fetched"
    /\ bdf \in {BarSeries(S) : S \in SubsetsUpTo(BarInstants, MaxBars) \ {{}}}
    /\ intraday_df = << >>
    /\ overnight_df = << >>
    /\ bi = 0
    /\ DriftIdle
    /\ RunIdle
    /\ FetchIdle

\* lines 278-299: convert, split, intraday delta, overnight delta column = 0.0
SplitSessions ==
    /\ bpc = "fetched"
    /\ LET df == [k \in 1..Len(bdf) |->
                    [bdf[k] EXCEPT !.timestamp = TzConvertNY(ToDatetimeUtc(@))]]
           idf == getIntradayBarAttributes(df)
           odf == getOvernightBarAttributes(df)
       IN  /\ intraday_df' = [k \in 1..Len(idf) |->
                [open |-> idf[k].open, close |-> idf[k].close,
                 timestamp |-> idf[k].timestamp, type |-> "intraday",
                 delta |-> idf[k].close - idf[k].open]]
           /\ overnight_df' = [k \in 1..Len(odf) |->
                [open |-> odf[k].open, close |-> odf[k].close,
                 timestamp |-> odf[k].timestamp, type |-> "overnight",
                 delta |-> 0]]
    /\ bi' = 0
    /\ bpc' = "delta"
    /\ UNCHANGED bdf
    /\ UNCHANGED nonBarVars

\* lines 300-313: one iteration of the loop over overnight rows
OvernightDeltaStep ==
    /\ bpc = "delta"
    /\ bi < Len(overnight_df)
    /\ overnight_df' = [overnight_df EXCEPT ![bi + 1].delta =
                            OvernightDelta(overnight_df, bi + 1)]
    /\ bi' = bi + 1
    /\ UNCHANGED <<bpc, bdf, intraday_df>>
    /\ UNCHANGED nonBarVars

\* lines 315-319: the loop is over, both frames are returned
ReturnDrift ==
    /\ bpc = "delta"
    /\ bi = Len(overnight_df)
    /\ bpc' = "returned"
    /\ UNCHANGED <<bdf, intraday_df, overnight_df, bi>>
    /\ UNCHANGED nonBarVars

(* ----------------------- load_continuous_dataframes -------------------- *)
WithColumns(row, pct) ==
    [open |-> row.open, close |-> row.close, timestamp |-> row.timestamp,
     type |-> row.type, delta |-> row.delta, pct_chg |-> pct,
     cumulative_growth |-> RInt(100)]

ContinuousGrowthNoScale(prev, pct) == RMul(prev, RAdd(RInt(100), pct))

\* prev * 0.01 * (100 + pct_chg)
ContinuousGrowth(prev, pct) ==
    RMul(RMul(prev, Rat(1, 100)), RAdd(RInt(100), pct))

\* lines 333-336: pct_chg columns, overnight cumulative_growth = 100.0
\* (the intraday column of line 340 is set here too: nothing reads it before)
StartGrowth ==
    /\ bpc = "returned"
    /\ overnight_df' = [k \in 1..Len(overnight_df) |->
            WithColumns(overnight_df[k],
                        RMul(Rat(overnight_df[k].delta, overnight_df[k].close), RInt(100)))]
    /\ intraday_df' = [k \in 1..Len(intraday_df) |->
            WithColumns(intraday_df[k],
                        RMul(Rat(intraday_df[k].delta, intraday_df[k].open), RInt(100)))]
    /\ bi' = 1
    /\ bpc' = "overnight_growth"
    /\ UNCHANGED bdf
    /\ UNCHANGED nonBarVars

\* lines 337-338: for i in range(1, len(overnightdf)), row i is the (bi+1)-th
OvernightGrowthStep ==
    /\ bpc = "overnight_growth"
    /\ bi < Len(overnight_df)
    /\ overnight_df' = [overnight_df EXCEPT ![bi + 1].cumulative_growth =
            ContinuousGrowth(overnight_df[bi].cumulative_growth,
                             overnight_df[bi + 1].pct_chg)]
    /\ bi' = bi + 1
    /\ UNCHANGED <<bpc, bdf, intraday_df>>
    /\ UNCHANGED nonBarVars

OvernightGrowthDone ==
    /\ bpc = "overnight_growth"
    /\ bi >= Len(overnight_df)
    /\ bi' = 1
    /\ bpc' = "intraday_growth"
    /\ UNCHANGED <<bdf, intraday_df, overnight_df>>
    /\ UNCHANGED nonBarVars

\* lines 341-342
IntradayGrowthStep ==
    /\ bpc = "intraday_growth"
    /\ bi < Len(intraday_df)
    /\ intraday_df' = [intraday_df EXCEPT ![bi + 1].cumulative_growth =
            ContinuousGrowth(intraday_df[bi].cumulative_growth,
                             intraday_df[bi + 1].pct_chg)]
    /\ bi' = bi + 1
    /\ UNCHANGED <<bpc, bdf, overnight_df>>
    /\ UNCHANGED nonBarVars

\* line 344
ReturnContinuous ==
    /\ bpc = "intraday_growth"
    /\ bi >= Len(intraday_df)
    /\ bpc' = "continuous"
    /\ UNCHANGED <<bdf, intraday_df, overnight_df, bi>>
    /\ UNCHANGED nonBarVars

NextBar ==
    \/ SplitSessions
    \/ OvernightDeltaStep
    \/ ReturnDrift
    \/ StartGrowth
    \/ OvernightGrowthStep
    \/ OvernightGrowthDone
    \/ IntradayGrowthStep
    \/ ReturnContinuous

SpecBar == InitBar /\ [][NextBar]_vars

(* --------------- getDriftDataFrames / simpleTestOfPrinciple ----------- *)
\* UTC slots at which the data source may hold a bar in this program: 13:30,
\* 19:30 and 23:30 UTC every day and, on standard-time days, 14:30 UTC
DaySlots(d) == IF d % 2 = 0 THEN {27, 39, 47} ELSE {27, 29, 39, 47}
DriftInstants == {ts \in At(0, 0)..At(NumDays, 0) :
                    DayOf(ts) \in Days /\ SlotOf(ts) \in DaySlots(DayOf(ts))}

\* trading calendars of the provider: every day, one holiday, or a year
\* for which the calendar endpoint returns nothing
CalendarChoices ==
    {Days \ H : H \in SubsetsUpTo(Days, 1)}
        \cup {{d \in Days : d \div DaysPerYear # y} : y \in {d \div DaysPerYear : d \in Days}}

\* (timestamp.dt.hour == 13) & (timestamp.dt.minute == 30)
OpenHour == 13
OpenMinute == 30
\* (timestamp.dt.hour == 19) & (timestamp.dt.minute == 30)
CloseHour == 19
CloseMinute == 30

IsOpenBar(t) == HourOf(t) = OpenHour /\ MinuteOf(t) = OpenMinute
IsCloseBar(t) == HourOf(t) = CloseHour /\ MinuteOf(t) = CloseMinute

\* getTradingDays(year): the dates of the year, an exception when there are none
getTradingDays(cal, year) ==
    LET days == {d \in cal : d \div DaysPerYear = year}
    IN  IF days = {} THEN [raised |-> TRUE, days |-> {}]
        ELSE [raised |-> FALSE, days |-> days]

TradingDayFilterKeepAll(df, cal) ==
    LET stamped == Reparse(df)
        years == {YearOf(stamped[k].timestamp.utc) : k \in 1..Len(stamped)}
        start_year == CHOOSE y \in years : \A z \in years : y <= z
        end_year == CHOOSE y \in years : \A z \in years : z <= y
        fetched == [y \in start_year..end_year |-> getTradingDays(cal, y)]
        trading_days == UNION {fetched[y].days : y \in start_year..end_year}
        dated == [k \in 1..Len(stamped) |->
                    [open |-> stamped[k].open, close |-> stamped[k].close,
                     timestamp |-> stamped[k].timestamp,
                     date |-> DayOf(stamped[k].timestamp.utc)]]
        kept == dated
    IN  [raised |-> \E y \in start_year..end_year : fetched[y].raised,
         df |-> kept,
         dates |-> SetToSortedSeq({kept[k].date : k \in 1..Len(kept)})]

\* lines 186-199 (69-84): parse, calendar of every year spanned, filter, dates
TradingDayFilter(df, cal) ==
    LET stamped == Reparse(df)
        years == {YearOf(stamped[k].timestamp.utc) : k \in 1..Len(stamped)}
        start_year == CHOOSE y \in years : \A z \in years : y <= z
        end_year == CHOOSE y \in years : \A z \in years : z <= y
        fetched == [y \in start_year..end_year |-> getTradingDays(cal, y)]
        trading_days == UNION {fetched[y].days : y \in start_year..end_year}
        dated == [k \in 1..Len(stamped) |->
                    [open |-> stamped[k].open, close |-> stamped[k].close,
                     timestamp |-> stamped[k].timestamp,
                     date |-> DayOf(stamped[k].timestamp.utc)]]
        kept == SelectRows(dated, [k \in 1..Len(dated) |-> dated[k].date \in trading_days])
    IN  [raised |-> \E y \in start_year..end_year : fetched[y].raised,
         df |-> kept,
         dates |-> SetToSortedSeq({kept[k].date : k \in 1..Len(kept)})]

DayFrame(df, day) == SelectSeq(df, LAMBDA r : r.date = day)
OpenRows(day_df) == SelectSeq(day_df, LAMBDA r : IsOpenBar(r.timestamp))
CloseRows(day_df) == SelectSeq(day_df, LAMBDA r : IsCloseBar(r.timestamp))

FramesPairOvernightNextDay(df, today, tomorrow) ==
    LET today_df == DayFrame(df, today)
        tomorrow_df == DayFrame(df, tomorrow)
        today_open_df == OpenRows(today_df)
        today_close_df == CloseRows(today_df)
        tomorrow_open_df == OpenRows(tomorrow_df)
    IN  IF today_open_df = << >>
        THEN [skip |-> TRUE, warning |-> <<"No opening data", today>>]
        ELSE IF today_close_df = << >>
        THEN [skip |-> TRUE, warning |-> <<"No close bar found", today>>]
        ELSE IF tomorrow_open_df = << >>
        THEN [skip |-> TRUE, warning |-> <<"No opening data", tomorrow>>]
        ELSE LET today_open == today_open_df[1].open
                 today_close == today_close_df[1].close
                 tomorrow_open == tomorrow_open_df[1].open
                 overnight_drift == tomorrow_open - today_close
                 intraday_drift == today_close - today_open
             IN  [skip |-> FALSE,
                  overnight |-> [date |-> tomorrow, drift |-> overnight_drift,
                                 close |-> today_close,
                                 pct_chg |-> RMul(Rat(overnight_drift, today_close), RInt(100))],
                  intraday |-> [date |-> today, drift |-> intraday_drift,
                                close |-> today_close,
                                pct_chg |-> RMul(Rat(intraday_drift, today_open), RInt(100))]]

\* getDriftDataFrames, lines 210-248: one iteration of the per-day loop
FramesPair(df, today, tomorrow) ==
    LET today_df == DayFrame(df, today)
        tomorrow_df == DayFrame(df, tomorrow)
        today_open_df == OpenRows(today_df)
        today_close_df == CloseRows(today_df)
        tomorrow_open_df == OpenRows(tomorrow_df)
    IN  IF today_open_df = << >>
        THEN [skip |-> TRUE, warning |-> <<"No opening data", today>>]
        ELSE IF today_close_df = << >>
        THEN [skip |-> TRUE, warning |-> <<"No close bar found", today>>]
        ELSE IF tomorrow_open_df = << >>
        THEN [skip |-> TRUE, warning |-> <<"No opening data", tomorrow>>]
        ELSE LET today_open == today_open_df[1].open
                 today_close == today_close_df[1].close
                 tomorrow_open == tomorrow_open_df[1].open
                 overnight_drift == tomorrow_open - today_close
                 intraday_drift == today_close - today_open
             IN  [skip |-> FALSE,
                  overnight |-> [date |-> today, drift |-> overnight_drift,
                                 close |-> today_close,
                                 pct_chg |-> RMul(Rat(overnight_drift, today_close), RInt(100))],
                  intraday |-> [date |-> today, drift |-> intraday_drift,
                                close |-> today_close,
                                pct_chg |-> RMul(Rat(intraday_drift, today_open), RInt(100))]]

\* simpleTestOfPrinciple, lines 94-129: one iteration of the per-day loop
SimplePair(df, today, tomorrow) ==
    LET today_df == DayFrame(df, today)
        today_open_df == OpenRows(today_df)
        tomorrow_df == DayFrame(df, tomorrow)
        tomorrow_open_df == OpenRows(tomorrow_df)
    IN  IF today_open_df = << >>
        THEN [skip |-> TRUE, warning |-> <<"No opening data", today>>]
        ELSE IF tomorrow_open_df = << >>
        THEN [skip |-> TRUE, warning |-> <<"No opening data", tomorrow>>]
        ELSE LET today_open == today_open_df[1].open
                 today_close == today_df[Len(today_df)].close
                 tomorrow_open == tomorrow_open_df[1].open
             IN  [skip |-> FALSE,
                  overnight |-> tomorrow_open - today_close,
                  intraday |-> today_close - today_open]

RECURSIVE Sum(_)
Sum(xs) == IF xs = << >> THEN 0 ELSE Head(xs) + Sum(Tail(xs))

\* simpleTestOfPrinciple, lines 138-167
SimpleResults(overnight, intraday, all_dates) ==
    IF overnight = << >> \/ intraday = << >>
    THEN [kind |-> "raised", error |-> "No valid drift periods found"]
    ELSE [kind |-> "results",
          periods |-> Len(overnight),
          overnight_total |-> Sum(overnight),
          overnight_avg |-> Rat(Sum(overnight), Len(overnight)),
          intraday_total |-> Sum(intraday),
          intraday_avg |-> Rat(Sum(intraday), Len(intraday)),
          overnight_drifts |-> overnight,
          intraday_drifts |-> intraday,
          dates |-> SubSeq(all_dates, 1, Len(all_dates) - 1)]

\* getDriftDataFrames, lines 254-262
FramesResults(overnight, intraday) ==
    [kind |-> "frames", intraday |-> intraday, overnight |-> overnight]

InitDrift ==
    /\ dpc = "fetched"
    /\ dfn \in {"frames", "simple"}
    /\ source_bars \in (SUBSET DriftInstants) \ {{}}
    /\ ddf = BarSeries(source_bars)
    /\ calendar \in CalendarChoices
    /\ dates = << >>
    /\ di = 0
    /\ overnight_drifts = << >>
    /\ intraday_drifts = << >>
    /\ dwarn = << >>
    /\ dret = [kind |-> "none"]
    /\ BarIdle
    /\ RunIdle
    /\ FetchIdle

\* lines 186-202 (69-87)
FilterTradingDays ==
    /\ dpc = "fetched"
    /\ LET f == TradingDayFilter(ddf, calendar)
       IN  IF f.raised
           THEN /\ dpc' = "raised"
                /\ dret' = [kind |-> "raised", error |-> "No calendar data available"]
                /\ UNCHANGED <<ddf, dates>>
           ELSE /\ dpc' = "loop"
                /\ ddf' = f.df
                /\ dates' = f.dates
                /\ UNCHANGED dret
    /\ UNCHANGED <<dfn, source_bars, calendar, di, overnight_drifts, intraday_drifts,
                   dwarn>>
    /\ UNCHANGED nonDriftVars

\* one iteration of for i in range(len(dates) - 1); di is i
DriftLoopStep ==
    /\ dpc = "loop"
    /\ di < Len(dates) - 1
    /\ LET r == IF dfn = "frames"
                THEN FramesPair(ddf, dates[di + 1], dates[di + 2])
                ELSE SimplePair(ddf, dates[di + 1], dates[di + 2])
       IN  IF r.skip
           THEN /\ dwarn' = Append(dwarn, r.warning)
                /\ UNCHANGED <<overnight_drifts, intraday_drifts>>
           ELSE /\ overnight_drifts' = Append(overnight_drifts, r.overnight)
                /\ intraday_drifts' = Append(intraday_drifts, r.intraday)
                /\ UNCHANGED dwarn
    /\ di' = di + 1
    /\ UNCHANGED <<dpc, dfn, source_bars, ddf, calendar, dates, dret>>
    /\ UNCHANGED nonDriftVars

\* after the loop: the frames are returned, or the results (or the exception)
DriftReturn ==
    /\ dpc = "loop"
    /\ di >= Len(dates) - 1
    /\ dret' = IF dfn = "frames"
               THEN FramesResults(overnight_drifts, intraday_drifts)
               ELSE SimpleResults(overnight_drifts, intraday_drifts, dates)
    /\ dpc' = IF dret'.kind = "raised" THEN "raised" ELSE "returned"
    /\ UNCHANGED <<dfn, source_bars, ddf, calendar, dates, di, overnight_drifts,
                   intraday_drifts, dwarn>>
    /\ UNCHANGED nonDriftVars

NextDrift == FilterTradingDays \/ DriftLoopStep \/ DriftReturn

SpecDrift == InitDrift /\ [][NextDrift]_vars

(* ------------------------- main.py: the runner ------------------------ *)
\* the "-04:00" suffix of both range strings, added to the parsed time
RangeOffsetSlots == 4 * 2

\* generate_year_ranges, as the instants get30MinuteBarAttributes sends:
\* Jan 1 00:00 + 4 h to Dec 31 23:59 + 4 h of each year
generate_year_ranges(start_year, end_year) ==
    [k \in 1..(end_year - start_year + 1) |->
        [start |-> At((start_year + k - 1) * DaysPerYear, RangeOffsetSlots),
         end |-> At((start_year + k) * DaysPerYear, RangeOffsetSlots) - 1]]

\* what the provider holds for one day of a range: open and close bar, the
\* close bar only, or nothing
RunDayShapes == {{27, 39}, {39}, {}}
RangeDays(range) == {d \in DayOf(range.start)..DayOf(range.end) :
                       At(d, 27) >= range.start /\ At(d, 39) <= range.end}
RangeInstantSets(range) ==
    {UNION {{At(d, sl) : sl \in shape[d]} : d \in RangeDays(range)} :
        shape \in [RangeDays(range) -> RunDayShapes]}

\* the provider's answers for one range: a failed request, bars with the
\* trading calendar of the range, or bars and an empty calendar
RangeInputs(range) ==
    {[status |-> 500, instants |-> {}, trading |-> {}]}
        \cup {[status |-> 200, instants |-> S, trading |-> RangeDays(range)] :
                S \in RangeInstantSets(range)}
        \cup {[status |-> 200,
                instants |-> {At(d, sl) : d \in RangeDays(range), sl \in {27, 39}},
                trading |-> {}]}

\* get30MinuteBarAttributes, seen from its caller: the exception or the bars
FetchBars(input) ==
    IF input.status # 200
    THEN [raised |-> TRUE, error |-> "API request failed", bars |-> << >>]
    ELSE IF input.instants = {}
    THEN [raised |-> TRUE, error |-> "No bar data available", bars |-> << >>]
    ELSE [raised |-> FALSE, error |-> "", bars |-> BarSeries(input.instants)]

RECURSIVE FramesLoop(_, _, _, _)
FramesLoop(df, dts, i, acc) ==
    IF i >= Len(dts) - 1 THEN acc
    ELSE LET r == FramesPair(df, dts[i + 1], dts[i + 2])
         IN  FramesLoop(df, dts, i + 1,
                IF r.skip THEN acc
                ELSE [overnight |-> Append(acc.overnight, r.overnight),
                      intraday |-> Append(acc.intraday, r.intraday)])

\* getDriftDataFrames as one call
getDriftDataFrames(input) ==
    LET fetch == FetchBars(input) IN
    IF fetch.raised THEN [kind |-> "raised", error |-> fetch.error]
    ELSE LET f == TradingDayFilter(fetch.bars, input.trading) IN
         IF f.raised THEN [kind |-> "raised", error |-> "No calendar data available"]
         ELSE LET acc == FramesLoop(f.df, f.dates, 0,
                                    [overnight |-> << >>, intraday |-> << >>])
              IN  FramesResults(acc.overnight, acc.intraday)

RECURSIVE Flatten(_)
Flatten(frames) ==
    IF frames = << >> THEN << >> ELSE Head(frames) \o Flatten(Tail(frames))

RECURSIVE Reversed(_)
Reversed(xs) == IF xs = << >> THEN << >> ELSE Append(Reversed(Tail(xs)), Head(xs))

ConcatNewestFirst(frames) ==
    LET rows == Flatten(Reversed(frames))
    IN  [k \in 1..Len(rows) |->
            [label |-> k - 1, date |-> rows[k].date, pct_chg |-> rows[k].pct_chg]]

\* pd.concat(frames, ignore_index=True): rows in list order, labels 0..n-1
Concat(frames) ==
    LET rows == Flatten(frames)
    IN  [k \in 1..Len(rows) |->
            [label |-> k - 1, date |-> rows[k].date, pct_chg |-> rows[k].pct_chg]]

RECURSIVE RSum(_)
RSum(xs) == IF xs = << >> THEN RInt(0) ELSE RAdd(Head(xs), RSum(Tail(xs)))

\* full['pct_chg'].mean()
MeanPct(frame) ==
    RMul(RSum([k \in 1..Len(frame) |-> frame[k].pct_chg]), Rat(1, Len(frame)))

RECURSIVE SortByDate(_)
\* sort_values('date'): rows in date order, each keeping its label
SortByDate(frame) ==
    IF frame = << >> THEN << >>
    ELSE LET m == CHOOSE k \in 1..Len(frame) :
                    \A j \in 1..Len(frame) :
                        frame[k].date < frame[j].date
                            \/ (frame[k].date = frame[j].date /\ k <= j)
         IN  <<frame[m]>> \o SortByDate(SubSeq(frame, 1, m - 1)
                                         \o SubSeq(frame, m + 1, Len(frame)))

\* lines 418-427: copy, sort by date, cumulative = 100.0
PlotFrame(frame) ==
    LET sorted == SortByDate(frame)
    IN  [k \in 1..Len(sorted) |->
            [label |-> sorted[k].label, date |-> sorted[k].date,
             pct_chg |-> sorted[k].pct_chg, cumulative |-> RInt(100)]]

\* frame.loc[label]: the position of the row that carries the label
Loc(frame, label) == CHOOSE k \in 1..Len(frame) : frame[k].label = label

CumulativeAtYearReset(frame, i) ==
    IF YearOf(At(frame[Loc(frame, i)].date, 0)) # YearOf(At(frame[Loc(frame, i - 1)].date, 0))
    THEN RInt(100)
    ELSE RMul(frame[Loc(frame, i - 1)].cumulative,
              RAdd(RInt(1), RMul(frame[Loc(frame, i)].pct_chg, Rat(1, 100))))

\* lines 430, 433: loc[i - 1, 'cumulative'] * (1 + loc[i, 'pct_chg'] / 100.0)
CumulativeAt(frame, i) ==
    RMul(frame[Loc(frame, i - 1)].cumulative,
         RAdd(RInt(1), RMul(frame[Loc(frame, i)].pct_chg, Rat(1, 100))))

InitRun ==
    /\ rpc = "years"
    /\ ri = 0
    /\ market = << >>
    /\ all_intraday_dfs = << >>
    /\ all_overnight_dfs = << >>
    /\ rlog = << >>
    /\ full_intraday = << >>
    /\ full_overnight = << >>
    /\ cum_intraday = << >>
    /\ cum_overnight = << >>
    /\ ci = 0
    /\ BarIdle
    /\ DriftIdle
    /\ FetchIdle

\* main.py lines 37-45: one iteration over the year ranges
RunYear ==
    /\ rpc = "years"
    /\ ri < NumYears
    /\ \E input \in RangeInputs(generate_year_ranges(0, NumYears - 1)[ri + 1]) :
          LET r == getDriftDataFrames(input) IN
          /\ market' = Append(market, input)
          /\ IF r.kind = "raised"
             THEN /\ rlog' = Append(rlog, <<"Failed", ri>>)
                  /\ UNCHANGED <<all_intraday_dfs, all_overnight_dfs>>
             ELSE /\ all_intraday_dfs' = Append(all_intraday_dfs, r.intraday)
                  /\ all_overnight_dfs' = Append(all_overnight_dfs, r.overnight)
                  /\ rlog' = Append(rlog, <<"Processed", ri>>)
    /\ ri' = ri + 1
    /\ UNCHANGED <<rpc, full_intraday, full_overnight, cum_intraday, cum_overnight, ci>>
    /\ UNCHANGED nonRunVars

\* lines 47-49; pd.concat of an empty list raises, caught at line 59
ConcatResults ==
    /\ rpc = "years"
    /\ ri = NumYears
    /\ IF all_intraday_dfs = << >>
       THEN /\ rpc' = "error"
            /\ rlog' = Append(rlog, <<"Error", "No objects to concatenate">>)
            /\ UNCHANGED <<full_intraday, full_overnight>>
       ELSE /\ rpc' = "means"
            /\ full_intraday' = Concat(all_intraday_dfs)
            /\ full_overnight' = Concat(all_overnight_dfs)
            /\ UNCHANGED rlog
    /\ UNCHANGED <<ri, market, all_intraday_dfs, all_overnight_dfs,
                   cum_intraday, cum_overnight, ci>>
    /\ UNCHANGED nonRunVars

\* lines 51-54; a frame without rows has no 'pct_chg' column: KeyError
PrintMeans ==
    /\ rpc = "means"
    /\ IF full_intraday = << >>
       THEN /\ rpc' = "error"
            /\ rlog' = Append(rlog, <<"Error", "pct_chg">>)
       ELSE /\ rpc' = "plot"
            /\ rlog' = rlog \o << <<"Intraday Mean Drift", MeanPct(full_intraday)>>,
                                  <<"Overnight Mean Drift", MeanPct(full_overnight)>> >>
    /\ UNCHANGED <<ri, market, all_intraday_dfs, all_overnight_dfs, full_intraday,
                   full_overnight, cum_intraday, cum_overnight, ci>>
    /\ UNCHANGED nonRunVars

\* plot_cumulative_daily_drift, lines 417-427
PlotStart ==
    /\ rpc = "plot"
    /\ cum_intraday' = PlotFrame(full_intraday)
    /\ cum_overnight' = PlotFrame(full_overnight)
    /\ ci' = 1
    /\ rpc' = "plot_intraday"
    /\ UNCHANGED <<ri, market, all_intraday_dfs, all_overnight_dfs, rlog,
                   full_intraday, full_overnight>>
    /\ UNCHANGED nonRunVars

\* lines 429-430
PlotIntradayStep ==
    /\ rpc = "plot_intraday"
    /\ ci < Len(cum_intraday)
    /\ cum_intraday' = [cum_intraday EXCEPT ![Loc(cum_intraday, ci)].cumulative =
                            CumulativeAt(cum_intraday, ci)]
    /\ ci' = ci + 1
    /\ UNCHANGED <<rpc, ri, market, all_intraday_dfs, all_overnight_dfs, rlog,
                   full_intraday, full_overnight, cum_overnight>>
    /\ UNCHANGED nonRunVars

PlotIntradayDone ==
    /\ rpc = "plot_intraday"
    /\ ci >= Len(cum_intraday)
    /\ ci' = 1
    /\ rpc' = "plot_overnight"
    /\ UNCHANGED <<ri, market, all_intraday_dfs, all_overnight_dfs, rlog,
                   full_intraday, full_overnight, cum_intraday, cum_overnight>>
    /\ UNCHANGED nonRunVars

\* lines 432-433
PlotOvernightStep ==
    /\ rpc = "plot_overnight"
    /\ ci < Len(cum_overnight)
    /\ cum_overnight' = [cum_overnight EXCEPT ![Loc(cum_overnight, ci)].cumulative =
                            CumulativeAt(cum_overnight, ci)]
    /\ ci' = ci + 1
    /\ UNCHANGED <<rpc, ri, market, all_intraday_dfs, all_overnight_dfs, rlog,
                   full_intraday, full_overnight, cum_intraday>>
    /\ UNCHANGED nonRunVars

\* lines 435-447: the figure is drawn
PlotDone ==
    /\ rpc = "plot_overnight"
    /\ ci >= Len(cum_overnight)
    /\ rpc' = "done"
    /\ UNCHANGED <<ri, market, all_intraday_dfs, all_overnight_dfs, rlog,
                   full_intraday, full_overnight, cum_intraday, cum_overnight, ci>>
    /\ UNCHANGED nonRunVars

NextRun ==
    \/ RunYear
    \/ ConcatResults
    \/ PrintMeans
    \/ PlotStart
    \/ PlotIntradayStep
    \/ PlotIntradayDone
    \/ PlotOvernightStep
    \/ PlotDone

SpecRun == InitRun /\ [][NextRun]_vars

(* ------------------ getBars.py: the three fetch routines -------------- *)
\* the provider's pages for one request: page k answers the request that
\* carries token k - 1 (no token: the first page); every page but the last
\* carries the token of the next.  A page answers with bars, with no bars, or
\* with a status other than 200.
PageKinds == {"bars", "empty", "failed"}
PageChoices == UNION {[1..n -> PageKinds] : n \in 1..MaxPages}
Response(pgs, token) ==
    [status_code |-> IF pgs[token + 1] = "failed" THEN 500 ELSE 200,
     bars |-> IF pgs[token + 1] = "bars" THEN <<At(token, 27), At(token, 39)>> ELSE << >>,
     next_page_token |-> IF token + 1 < Len(pgs) THEN token + 1 ELSE 0]

InitFetch ==
    /\ fpc = "request"
    /\ timeframe \in {"5Min", "15Min", "30Min"}
    /\ pages \in PageChoices
    /\ page_token = 0
    /\ all_bars = << >>
    /\ requests = 0
    /\ fret = [kind |-> "none"]
    /\ BarIdle
    /\ DriftIdle
    /\ RunIdle

\* get5MinuteBarAttributes lines 64-108, get15MinuteBarAttributes lines 151-195:
\* one request, its bars returned
FetchSinglePage ==
    /\ fpc = "request"
    /\ timeframe \in {"5Min", "15Min"}
    /\ LET response == Response(pages, 0) IN
       /\ requests' = requests + 1
       /\ IF response.status_code # 200
          THEN /\ fret' = [kind |-> "raised", error |-> "API request failed"]
               /\ fpc' = "raised"
               /\ UNCHANGED all_bars
          ELSE IF response.bars = << >>
          THEN /\ fret' = [kind |-> "raised", error |-> "No bar data available"]
               /\ fpc' = "raised"
               /\ UNCHANGED all_bars
          ELSE /\ all_bars' = response.bars
               /\ fret' = [kind |-> "frame", bars |-> response.bars]
               /\ fpc' = "returned"
    /\ UNCHANGED <<timeframe, pages, page_token>>
    /\ UNCHANGED nonFetchVars

\* get30MinuteBarAttributes lines 260-281: one iteration of while True
FetchPage ==
    /\ fpc = "request"
    /\ timeframe = "30Min"
    /\ LET response == Response(pages, page_token) IN
       /\ requests' = requests + 1
       /\ IF response.status_code # 200
          THEN /\ fret' = [kind |-> "raised", error |-> "API request failed"]
               /\ fpc' = "raised"
               /\ UNCHANGED <<all_bars, page_token>>
          ELSE IF response.bars = << >>
          THEN IF all_bars = << >>
               THEN /\ fret' = [kind |-> "raised", error |-> "No bar data available"]
                    /\ fpc' = "raised"
                    /\ UNCHANGED <<all_bars, page_token>>
               ELSE /\ fpc' = "collected"
                    /\ UNCHANGED <<all_bars, page_token, fret>>
          ELSE /\ all_bars' = all_bars \o response.bars
               /\ IF response.next_page_token = 0
                  THEN /\ fpc' = "collected"
                       /\ UNCHANGED page_token
                  ELSE /\ page_token' = response.next_page_token
                       /\ UNCHANGED fpc
               /\ UNCHANGED fret
    /\ UNCHANGED <<timeframe, pages>>
    /\ UNCHANGED nonFetchVars

\* get30MinuteBarAttributes lines 283-302
FetchReturn ==
    /\ fpc = "collected"
    /\ IF all_bars = << >>
       THEN /\ fret' = [kind |-> "raised", error |-> "No bar data available"]
            /\ fpc' = "raised"
       ELSE /\ fret' = [kind |-> "frame", bars |-> all_bars]
            /\ fpc' = "returned"
    /\ UNCHANGED <<timeframe, pages, page_token, all_bars, requests>>
    /\ UNCHANGED nonFetchVars

NextFetch == FetchSinglePage \/ FetchPage \/ FetchReturn

SpecFetch == InitFetch /\ [][NextFetch]_vars

\* both growth computations: the runner with its plot, and the per-bar series
SpecGrowth == (InitRun \/ InitBar) /\ [][NextRun \/ NextBar]_vars

\* the per-day loop of either drift routine, or the runner built on it
SpecAligned == (InitDrift \/ InitRun) /\ [][NextDrift \/ NextRun]_vars

(* ============================== claims ================================ *)
\* Eastern wall-clock slot of an instant, and the session it falls in
EasternSlotOf(ts) == (ts - (IF DayOf(ts) % 2 = 0 THEN 8 ELSE 10)) % SlotsPerDay
IsOvernightInstant(ts) == EasternSlotOf(ts) < 19 \/ EasternSlotOf(ts) >= 32

\* the row of overnight_df that holds the bar of instant ts
OvernightRowOf(ts) == {k \in 1..Len(overnight_df) : overnight_df[k].timestamp.utc = ts}

\* positions of the fetched series before j that hold an overnight bar
EarlierOvernight(j) == {m \in 1..(j - 1) : IsOvernightInstant(bdf[m].timestamp.utc)}
LastOf(S) == CHOOSE m \in S : \A n \in S : n <= m

\* C1 as stated: when get30MinDriftPerBar returns, the overnight bar at Eastern
\* 00:00 has delta = close - close of the bar that precedes it in the fetched
\* series, and every other overnight bar has delta = close - open.
C1_PivotAtEasternMidnight ==
    bpc = "returned" =>
        \A j \in 1..Len(bdf) :
            LET ts == bdf[j].timestamp.utc IN
            IsOvernightInstant(ts) =>
                \A k \in OvernightRowOf(ts) :
                    IF EasternSlotOf(ts) = 0
                    THEN j > 1 => overnight_df[k].delta = bdf[j].close - bdf[j - 1].close
                    ELSE overnight_df[k].delta = bdf[j].close - bdf[j].open

\* C1 amended: when get30MinDriftPerBar returns, every overnight bar of the
\* fetched series has a row; the bar whose UTC time of day is 08:00 has delta =
\* close - close of the nearest earlier overnight bar of the series (its own
\* open when there is none), and every other overnight bar, the Eastern 00:00
\* bar included, has delta = close - open.
C1_PivotAtUtcEight ==
    bpc = "returned" =>
        \A j \in 1..Len(bdf) :
            LET ts == bdf[j].timestamp.utc IN
            IsOvernightInstant(ts) =>
                /\ OvernightRowOf(ts) # {}
                /\ \A k \in OvernightRowOf(ts) :
                      IF SlotOf(ts) = 16
                      THEN overnight_df[k].delta = bdf[j].close -
                              (IF EarlierOvernight(j) = {} THEN bdf[j].open
                               ELSE bdf[LastOf(EarlierOvernight(j))].close)
                      ELSE overnight_df[k].delta = bdf[j].close - bdf[j].open

\* C1 witness: a returned run where an Eastern 00:00 bar got delta = close - open
\* and a later 08:00 UTC bar, which follows an intraday bar in the fetched
\* series, got delta = close - close of that earlier overnight bar.
C1_Witness ==
    /\ bpc = "returned"
    /\ \E j \in 3..Len(bdf) :
          /\ SlotOf(bdf[j].timestamp.utc) = 16
          /\ ~IsOvernightInstant(bdf[j - 1].timestamp.utc)
          /\ EasternSlotOf(bdf[j - 2].timestamp.utc) = 0
          /\ \E k \in OvernightRowOf(bdf[j].timestamp.utc) :
                /\ overnight_df[k].delta = bdf[j].close - bdf[j - 2].close
                /\ overnight_df[k].delta # bdf[j].close - bdf[j].open
                /\ overnight_df[k].delta # bdf[j].close - bdf[j - 1].close
          /\ \E k \in OvernightRowOf(bdf[j - 2].timestamp.utc) :
                overnight_df[k].delta = bdf[j - 2].close - bdf[j - 2].open

\* rows of the filtered frame ddf dated d that sit at a given slot
RowsAtUtcSlot(d, slot) ==
    {k \in 1..Len(ddf) : DayOf(ddf[k].timestamp.utc) = d /\ SlotOf(ddf[k].timestamp.utc) = slot}
\* rows dated d whose Eastern wall-clock time is 09:30
EasternOpenRows(d) ==
    {k \in 1..Len(ddf) : DayOf(ddf[k].timestamp.utc) = d
                          /\ EasternSlotOf(ddf[k].timestamp.utc) = 19}
DateSet == {dates[k] : k \in 1..Len(dates)}
NextDate(d) == CHOOSE e \in DateSet : e > d /\ \A f \in DateSet : f > d => e <= f
PrevDate(d) == CHOOSE e \in DateSet : e < d /\ \A f \in DateSet : f < d => f <= e
RecordDates(series) == {series[k].date : k \in 1..Len(series)}

\* C2 as stated: every record of getDriftDataFrames is computed from the open of
\* the bar at 09:30 Eastern of its day (intraday drift) and of the next trading
\* day (overnight drift), on daylight-time and standard-time dates alike.
C2_OpenIsEasternNineThirty ==
    dfn = "frames" =>
        \A k \in 1..Len(intraday_drifts) :
            LET today == intraday_drifts[k].date
                tomorrow == NextDate(today)
            IN  /\ \E o \in EasternOpenRows(today) :
                      intraday_drifts[k].drift = intraday_drifts[k].close - ddf[o].open
                /\ \E o \in EasternOpenRows(tomorrow) :
                      overnight_drifts[k].drift = ddf[o].open - overnight_drifts[k].close

\* C3 as stated: when getDriftDataFrames returns and D is the only trading date
\* without its open bar (every date has its close bar), the intraday series
\* lacks D only and the overnight series lacks the date before D only.
C3_OnlyTwoRecordsAbsent ==
    (dpc = "returned" /\ dfn = "frames") =>
        \A D \in DateSet :
            LET open_missing(d) == RowsAtUtcSlot(d, 27) = {} /\ EasternOpenRows(d) = {}
                open_there(d) == RowsAtUtcSlot(d, 27) # {} /\ EasternOpenRows(d) # {}
                paired == DateSet \ {dates[Len(dates)]}
            IN  ( /\ open_missing(D)
                  /\ D # dates[1]
                  /\ \A d \in DateSet \ {D} : open_there(d)
                  /\ \A d \in DateSet : RowsAtUtcSlot(d, 39) # {} )
                => /\ RecordDates(intraday_drifts) = paired \ {D}
                   /\ RecordDates(overnight_drifts) = paired \ {PrevDate(D)}

\* C9 as stated: a call that found zero valid periods ends in an error, it never
\* returns a result.
C9_ZeroPeriodsIsError ==
    dpc = "returned" => Len(overnight_drifts) > 0 /\ Len(intraday_drifts) > 0

(* ---- the runner, against what the provider held for each year range --- *)
RangeOk(y) ==
    /\ market[y + 1].status = 200
    /\ market[y + 1].instants # {}
    /\ market[y + 1].trading # {}
Held(d, slot) ==
    /\ d \div DaysPerYear < Len(market)
    /\ At(d, slot) \in market[(d \div DaysPerYear) + 1].instants
\* the days of year y that hold a bar, and the one that follows d among them
BarDays(y) == {d \in (y * DaysPerYear)..((y + 1) * DaysPerYear - 1) :
                 Held(d, 27) \/ Held(d, 39)}
FollowingBarDay(y, d) ==
    CHOOSE e \in BarDays(y) : e > d /\ \A f \in BarDays(y) : f > d => e <= f
\* the days of year y for which one call of getDriftDataFrames has all three bars
PairedDays(y) ==
    {d \in BarDays(y) :
        /\ \E e \in BarDays(y) : e > d
        /\ Held(d, 27) /\ Held(d, 39)
        /\ Held(FollowingBarDay(y, d), 27)}
ProcessedYears == {y \in 0..(Len(market) - 1) : RangeOk(y)}
IntradayPct(d) ==
    Rat(100 * (CloseAt(At(d, 39)) - OpenAt(At(d, 27))), OpenAt(At(d, 27)))
OvernightPct(y, d) ==
    Rat(100 * (OpenAt(At(FollowingBarDay(y, d), 27)) - CloseAt(At(d, 39))), CloseAt(At(d, 39)))
Concatenated == rpc \in {"means", "plot", "plot_intraday", "plot_overnight", "done"}
\* 1 + pct_chg / 100 as a fraction
Factor(pct) == Rat(100 * pct.den + pct.num, 100 * pct.den)
RECURSIVE Product(_)
Product(frame) ==
    IF frame = << >> THEN RInt(1)
    ELSE RMul(Factor(Head(frame).pct_chg), Product(Tail(frame)))

\* C4 as stated: when the plot's series are complete, the last cumulative value
\* is 100 times the product of (1 + pct_chg/100) over every record.
C4_FinalIsFullProduct ==
    (rpc = "done" /\ Len(cum_intraday) >= 1) =>
        /\ cum_intraday[Len(cum_intraday)].cumulative
              = RMul(RInt(100), Product(cum_intraday))
        /\ cum_overnight[Len(cum_overnight)].cumulative
              = RMul(RInt(100), Product(cum_overnight))

\* C6 as stated: after a run in which every year range was processed, each day
\* of the span that holds its open and close bars, and whose next day holds its
\* open bar, has exactly one intraday and one overnight record - the last day
\* of a year followed by the first day of the next year included.
C6_EveryEligibleDayContributes ==
    (Concatenated /\ \A y \in 0..(NumYears - 1) : RangeOk(y)) =>
        \A d \in 0..(NumYears * DaysPerYear - 2) :
            (Held(d, 27) /\ Held(d, 39) /\ Held(d + 1, 27)) =>
                /\ Cardinality({k \in 1..Len(full_intraday) : full_intraday[k].date = d}) = 1
                /\ Cardinality({k \in 1..Len(full_overnight) : full_overnight[k].date = d}) = 1

\* C7: in the finished plot series (rows in date order) the first record has
\* cumulative 100 and the first record of every later year is the previous
\* record's cumulative times (1 + pct_chg/100): the index is not reset per year.
C7_NoPerYearReset ==
    rpc = "done" =>
        \A frame \in {cum_intraday, cum_overnight} :
            /\ Len(frame) >= 1 => frame[1].cumulative = RInt(100)
            /\ \A k \in 2..Len(frame) :
                  /\ frame[k - 1].date < frame[k].date
                  /\ frame[k].date \div DaysPerYear # frame[k - 1].date \div DaysPerYear
                       => frame[k].cumulative
                            = RMul(frame[k - 1].cumulative, Factor(frame[k].pct_chg))

\* C7 witness: a finished plot whose second-year first record carries a
\* compounded value other than 100.
C7_Witness ==
    /\ rpc = "done"
    /\ \E k \in 2..Len(cum_overnight) :
          /\ cum_overnight[k].date \div DaysPerYear # cum_overnight[k - 1].date \div DaysPerYear
          /\ cum_overnight[k].cumulative # RInt(100)
          /\ cum_overnight[k].pct_chg # RInt(0)

\* C8: every year range is attempted and logged as processed or failed, the
\* loop goes on after a failure, and the concatenated series hold exactly the
\* records of the processed years, in increasing date order.
C8_FailedYearsSkipped ==
    /\ Len(market) = ri
    /\ rpc # "years" => ri = NumYears
    /\ \A y \in 0..(ri - 1) :
          rlog[y + 1] = IF RangeOk(y) THEN <<"Processed", y>> ELSE <<"Failed", y>>
    /\ Concatenated =>
          /\ Len(full_intraday) = Len(full_overnight)
          /\ \A k \in 2..Len(full_intraday) :
                full_intraday[k - 1].date < full_intraday[k].date
          /\ {full_intraday[k].date : k \in 1..Len(full_intraday)}
                = UNION {PairedDays(y) : y \in ProcessedYears}
          /\ \A k \in 1..Len(full_intraday) :
                LET d == full_intraday[k].date IN
                /\ full_overnight[k].date = d
                /\ full_intraday[k].pct_chg = IntradayPct(d)
                /\ full_overnight[k].pct_chg = OvernightPct(d \div DaysPerYear, d)

\* C8 witness: a run that finished its plot although a year range failed, with
\* the records of the other years in the series.
C8_Witness ==
    /\ rpc = "done"
    /\ \E y \in 0..(NumYears - 1) : rlog[y + 1] = <<"Failed", y>>
    /\ Len(full_intraday) >= 1

\* the first n rows of a series follow growth[0] = 100,
\* growth[i] = growth[i-1] * (1 + pct_chg[i] / 100), the later rows still hold 100
Compounded(growth, pct, n) ==
    /\ Len(growth) >= 1 => growth[1] = RInt(100)
    /\ \A k \in 2..Len(growth) :
          growth[k] = IF k <= n THEN RMul(growth[k - 1], Factor(pct[k])) ELSE RInt(100)
PlotColumn(frame) == [k \in 1..Len(frame) |-> frame[k].cumulative]
GrowthColumn(frame) == [k \in 1..Len(frame) |-> frame[k].cumulative_growth]
PctColumn(frame) == [k \in 1..Len(frame) |-> frame[k].pct_chg]
Increasing(xs) == \A k \in 2..Len(xs) : xs[k - 1] < xs[k]

\* C5: at every step of plot_cumulative_daily_drift and of
\* load_continuous_dataframes the rows computed so far satisfy growth[0] = 100
\* and growth[i] = growth[i-1] * (1 + pct_chg[i]/100), the rows being in date
\* (timestamp) order.
C5_GrowthRecurrence ==
    /\ rpc \in {"plot_intraday", "plot_overnight", "done"} =>
          /\ Increasing([k \in 1..Len(cum_intraday) |-> cum_intraday[k].date])
          /\ Increasing([k \in 1..Len(cum_overnight) |-> cum_overnight[k].date])
          /\ Compounded(PlotColumn(cum_intraday), PctColumn(cum_intraday),
                        IF rpc = "plot_intraday" THEN ci ELSE Len(cum_intraday))
          /\ Compounded(PlotColumn(cum_overnight), PctColumn(cum_overnight),
                        IF rpc = "plot_intraday" THEN 1
                        ELSE IF rpc = "plot_overnight" THEN ci ELSE Len(cum_overnight))
    /\ bpc \in {"overnight_growth", "intraday_growth", "continuous"} =>
          /\ Increasing([k \in 1..Len(intraday_df) |-> intraday_df[k].timestamp.utc])
          /\ Increasing([k \in 1..Len(overnight_df) |-> overnight_df[k].timestamp.utc])
          /\ Compounded(GrowthColumn(overnight_df), PctColumn(overnight_df),
                        IF bpc = "overnight_growth" THEN bi ELSE Len(overnight_df))
          /\ Compounded(GrowthColumn(intraday_df), PctColumn(intraday_df),
                        IF bpc = "overnight_growth" THEN 1
                        ELSE IF bpc = "intraday_growth" THEN bi ELSE Len(intraday_df))

\* C5 witness: load_continuous_dataframes returned an overnight series of three
\* rows whose growth moved at both steps.
C5_Witness ==
    /\ bpc = "continuous"
    /\ Len(overnight_df) = 3
    /\ overnight_df[1].cumulative_growth = RInt(100)
    /\ overnight_df[2].cumulative_growth # overnight_df[1].cumulative_growth
    /\ overnight_df[3].cumulative_growth # overnight_df[2].cumulative_growth

\* the bars of every page of the provider, in page order
RECURSIVE AllPageBars(_, _)
AllPageBars(pgs, k) ==
    IF k > Len(pgs) THEN << >>
    ELSE Response(pgs, k - 1).bars \o AllPageBars(pgs, k + 1)

\* C10 as stated: a fetch of any of the three granularities that returns has
\* requested every page (it stopped at the page without a token) and returns
\* the bars of every page in page order.
C10_AllPagesCollected ==
    fpc = "returned" =>
        /\ requests = Len(pages)
        /\ fret.bars = AllPageBars(pages, 1)

(* --------------------- C11: the two filters partition ----------------- *)
RowsOf(frame, ts) == {k \in 1..Len(frame) : frame[k].timestamp.utc = ts}
Split == bpc # "idle" /\ bpc # "fetched"

\* C11: once get30MinDriftPerBar has applied getIntradayBarAttributes and
\* getOvernightBarAttributes to the fetched bars, every fetched bar is a row
\* of exactly one of the two outputs, with its prices unchanged: none is
\* dropped, none is in both, and the outputs hold nothing else.
C11_FiltersPartition ==
    Split =>
        /\ Len(intraday_df) + Len(overnight_df) = Len(bdf)
        /\ \A k \in 1..Len(bdf) :
              LET ts == bdf[k].timestamp.utc
                  inI == RowsOf(intraday_df, ts)
                  inO == RowsOf(overnight_df, ts)
              IN  /\ Cardinality(inI) + Cardinality(inO) = 1
                  /\ \A m \in inI : intraday_df[m].open = bdf[k].open
                                     /\ intraday_df[m].close = bdf[k].close
                  /\ \A m \in inO : overnight_df[m].open = bdf[k].open
                                     /\ overnight_df[m].close = bdf[k].close

\* C11 witness: a split series holding a bar at Eastern 09:00, one at Eastern
\* 09:30 and one at Eastern 16:00 (the two session boundaries), with a row in
\* each output.
C11_Witness ==
    /\ Split
    /\ \E a, b, c \in 1..Len(bdf) :
          /\ EasternSlotOf(bdf[a].timestamp.utc) = 18
          /\ EasternSlotOf(bdf[b].timestamp.utc) = 19
          /\ EasternSlotOf(bdf[c].timestamp.utc) = 32
    /\ Len(intraday_df) = 1
    /\ Len(overnight_df) = 2

(* ------------------------ C12: the final summary ----------------------- *)
RunEnded == rpc \in {"done", "error"}
Printed(what) == \E k \in 1..Len(rlog) : rlog[k][1] = what

\* C12 as stated: a run of the multi-year runner that has ended has printed a
\* summary holding the number of valid periods analyzed and both drift
\* statistics, whatever years failed or days were skipped.
C12_RunEndsWithSummary ==
    RunEnded =>
        /\ Printed("Number of periods analyzed")
        /\ Printed("Intraday Mean Drift")
        /\ Printed("Overnight Mean Drift")

(* ------------------ C13: the two series stay aligned ------------------ *)
\* iteration i of the per-day loop, and the iterations among the first n that
\* appended a record
PairOf(i) ==
    IF dfn = "frames" THEN FramesPair(ddf, dates[i], dates[i + 1])
    ELSE SimplePair(ddf, dates[i], dates[i + 1])
ValidPairs(n) == SetToSortedSeq({i \in 1..n : ~PairOf(i).skip})
SameDates(a, b) ==
    /\ Len(a) = Len(b)
    /\ \A k \in 1..Len(a) : a[k].date = b[k].date
InDriftLoop == dpc \in {"loop", "returned", "raised"} /\ Len(dates) >= 1

\* C13: after every iteration of the per-day loop of getDriftDataFrames and
\* of simpleTestOfPrinciple the intraday and overnight series have the same
\* length and their k-th entries come from the same day, the k-th day for
\* which the iteration appended; the returned series are the same ones; in
\* the runner the per-year frames, the concatenated frames and the plotted
\* frames have equal lengths and the same date at every index.
C13_SeriesAligned ==
    /\ Len(overnight_drifts) = Len(intraday_drifts)
    /\ InDriftLoop =>
          LET made == ValidPairs(di) IN
          /\ Len(intraday_drifts) = Len(made)
          /\ \A k \in 1..Len(made) :
                IF dfn = "frames"
                THEN /\ intraday_drifts[k].date = dates[made[k]]
                     /\ overnight_drifts[k].date = dates[made[k]]
                ELSE /\ intraday_drifts[k] = PairOf(made[k]).intraday
                     /\ overnight_drifts[k] = PairOf(made[k]).overnight
    /\ dret.kind = "frames" =>
          /\ SameDates(dret.intraday, dret.overnight)
          /\ dret.intraday = intraday_drifts
          /\ dret.overnight = overnight_drifts
    /\ dret.kind = "results" =>
          /\ Len(dret.intraday_drifts) = Len(dret.overnight_drifts)
          /\ dret.periods = Len(dret.intraday_drifts)
          /\ dret.intraday_drifts = intraday_drifts
          /\ dret.overnight_drifts = overnight_drifts
    /\ Len(all_intraday_dfs) = Len(all_overnight_dfs)
    /\ \A y \in 1..Len(all_intraday_dfs) :
          SameDates(all_intraday_dfs[y], all_overnight_dfs[y])
    /\ SameDates(full_intraday, full_overnight)
    /\ SameDates(cum_intraday, cum_overnight)

\* C13 witness: getDriftDataFrames has returned one record per
\* series after an iteration that was skipped for a missing bar.
C13_Witness ==
    /\ dret.kind = "frames"
    /\ Len(dwarn) >= 1
    /\ Len(dret.intraday) >= 1
    /\ Len(dret.overnight) >= 1
    /\ dret.intraday[1].date > dates[1]

(* ---------------- C14: Eastern 09:30 in both offsets ------------------ *)
EasternOpenBars(standard) ==
    {k \in 1..Len(bdf) : /\ EasternSlotOf(bdf[k].timestamp.utc) = 19
                         /\ (DayOf(bdf[k].timestamp.utc) % 2 = 1) = standard}

\* C14: once the fetched bars are split, every bar whose Eastern local time
\* is 09:30 is a row of the intraday output and no row of the overnight
\* output, on standard-time dates (14:30 UTC) and on daylight-time dates
\* (13:30 UTC) alike.
C14_NineThirtyIsIntraday ==
    Split =>
        \A k \in EasternOpenBars(TRUE) \cup EasternOpenBars(FALSE) :
            /\ Cardinality(RowsOf(intraday_df, bdf[k].timestamp.utc)) = 1
            /\ RowsOf(overnight_df, bdf[k].timestamp.utc) = {}

\* C14 witness: a split series with an Eastern 09:30 bar on a standard-time
\* date and another on a daylight-time date.
C14_Witness ==
    /\ Split
    /\ EasternOpenBars(TRUE) # {}
    /\ EasternOpenBars(FALSE) # {}
    /\ Len(intraday_df) >= 2

(* ------------- C15: only trading-day bars reach the records ----------- *)
\* the bars of the data source dated on a day of the trading calendar
TradingBars == {ts \in source_bars : DayOf(ts) \in calendar}
Filtered ==
    \/ dpc \in {"loop", "returned"}
    \/ dpc = "raised" /\ dret.error = "No valid drift periods found"
BarsOn(d) == {ts \in TradingBars : DayOf(ts) = d}
LastBarOn(d) == CHOOSE ts \in BarsOn(d) : \A u \in BarsOn(d) : u <= ts
\* the close instant each routine uses for day d
CloseInstant(d) == IF dfn = "frames" THEN At(d, 39) ELSE LastBarOn(d)
DriftOf(series, k) == IF dfn = "frames" THEN series[k].drift ELSE series[k]

\* C15: the frame the per-day loop works on holds exactly the source's bars
\* dated on a trading day; every drift record made so far belongs to a
\* trading day d, and its open, close and next-open prices are those of bars
\* of the source dated on d and on a later trading day; before the filter
\* has run no record exists.
C15_OnlyTradingDayBars ==
    /\ ~Filtered => overnight_drifts = << >> /\ intraday_drifts = << >>
    /\ Filtered =>
          /\ ddf = [k \in 1..Len(ddf) |->
                      [open |-> OpenAt(ddf[k].timestamp.utc),
                       close |-> CloseAt(ddf[k].timestamp.utc),
                       timestamp |-> UtcStamp(ddf[k].timestamp.utc),
                       date |-> DayOf(ddf[k].timestamp.utc)]]
          /\ {ddf[k].timestamp.utc : k \in 1..Len(ddf)} = TradingBars
          /\ DateSet \subseteq calendar
          /\ LET made == ValidPairs(di) IN
             \A k \in 1..Len(made) :
                LET d == dates[made[k]]
                    e == dates[made[k] + 1]
                IN  /\ d \in calendar /\ e \in calendar /\ d < e
                    /\ {At(d, 27), CloseInstant(d), At(e, 27)} \subseteq TradingBars
                    /\ dfn = "frames" =>
                          /\ intraday_drifts[k].date = d
                          /\ overnight_drifts[k].date = d
                          /\ intraday_drifts[k].close = CloseAt(CloseInstant(d))
                    /\ DriftOf(intraday_drifts, k)
                          = CloseAt(CloseInstant(d)) - OpenAt(At(d, 27))
                    /\ DriftOf(overnight_drifts, k)
                          = OpenAt(At(e, 27)) - CloseAt(CloseInstant(d))

\* C15 witness: the source returned a 13:30 UTC bar and a 19:30 UTC bar for a
\* day that is not in the trading calendar, between two trading days, and
\* the loop has made the record of the earlier trading day.
C15_Witness ==
    /\ Filtered
    /\ Len(overnight_drifts) >= 1
    /\ \E h \in Days \ calendar :
          /\ {At(h, 27), At(h, 39)} \subseteq source_bars
          /\ dates[1] < h
          /\ h < dates[2]
          /\ ~PairOf(1).skip

(* ------------------ C16: one session-close convention ----------------- *)
\* what each routine's loop yields on the filtered frame of this state
FramesMade == SetToSortedSeq({i \in 1..(Len(dates) - 1) :
                                ~FramesPair(ddf, dates[i], dates[i + 1]).skip})
SimpleMade == SetToSortedSeq({i \in 1..(Len(dates) - 1) :
                                ~SimplePair(ddf, dates[i], dates[i + 1]).skip})
FramesIntraday ==
    [k \in 1..Len(FramesMade) |->
        FramesPair(ddf, dates[FramesMade[k]], dates[FramesMade[k] + 1]).intraday.drift]
FramesOvernight ==
    [k \in 1..Len(FramesMade) |->
        FramesPair(ddf, dates[FramesMade[k]], dates[FramesMade[k] + 1]).overnight.drift]
SimpleIntraday ==
    [k \in 1..Len(SimpleMade) |->
        SimplePair(ddf, dates[SimpleMade[k]], dates[SimpleMade[k] + 1]).intraday]
SimpleOvernight ==
    [k \in 1..Len(SimpleMade) |->
        SimplePair(ddf, dates[SimpleMade[k]], dates[SimpleMade[k] + 1]).overnight]
LoopOver == Filtered /\ di >= Len(dates) - 1

\* C16 as stated: when the per-day loop of either routine is over, its
\* sequence of intraday deltas and its sequence of overnight deltas are the
\* ones the other routine yields on the same bars and trading calendar.
C16_SameCloseConvention ==
    LoopOver =>
        IF dfn = "frames"
        THEN /\ [k \in 1..Len(intraday_drifts) |-> intraday_drifts[k].drift]
                    = SimpleIntraday
             /\ [k \in 1..Len(overnight_drifts) |-> overnight_drifts[k].drift]
                    = SimpleOvernight
        ELSE /\ intraday_drifts = FramesIntraday
             /\ overnight_drifts = FramesOvernight

(* -------------- C17: the 'dates' entry of the results ----------------- *)
\* C17 as stated: in the dictionary simpleTestOfPrinciple returns, 'dates' is
\* as long as 'overnight_drifts' and 'intraday_drifts' (= 'periods'), and
\* dates[k] is the day whose iteration appended the drifts at index k.
C17_DatesMatchDrifts ==
    dret.kind = "results" =>
        LET made == ValidPairs(Len(dates) - 1) IN
        /\ Len(dret.dates) = dret.periods
        /\ Len(dret.dates) = Len(dret.overnight_drifts)
        /\ Len(dret.dates) = Len(dret.intraday_drifts)
        /\ \A k \in 1..Len(made) :
              k <= Len(dret.dates) /\ dret.dates[k] = dates[made[k]]

===========================================================================
